---- MODULE Spec2Model ----
(***************************************************************************)
(* Model of the Python data-types mini-trainer (src/main.py): the AST      *)
(* allow-list validator, safe_eval, the checker factories, the two         *)
(* exec-based checkers and the run_tasks session loop.                     *)
(*                                                                         *)
(* Three specifications share the variables:                               *)
(*   SpecValidate  builds syntax trees and applies _validate_ast to them   *)
(*   SpecTextio    builds answer strings and applies check_textio          *)
(*   Spec          the run_tasks session, which calls the items' checkers  *)
(***************************************************************************)
EXTENDS Integers, Sequences, FiniteSets, TLC

VARIABLES
    tree, wraps, vphase, vresult,       \* SpecValidate
    tExpected, tAns, tchunks, tphase, tVerdict,  \* SpecTextio

    mode, status, task, pos, score, total, pc, hints, report, last,  \* run_tasks
    procHeap, procBuiltins              \* process state the checkers can reach

vvars == <<tree, wraps, vphase, vresult>>
tvars == <<tExpected, tAns, tchunks, tphase, tVerdict>>
svars == <<mode, status, task, pos, score, total, pc, hints, report, last,
           procHeap, procBuiltins>>
vars == <<vvars, tvars, svars>>

\* ---------------------------------------------------------------- bounds
MaxWraps == 3      \* constructs nested around a leaf in SpecValidate
MaxHints == 2      \* consecutive '?' inputs followed in Spec
MaxChunks == 5     \* pieces an answer string is assembled from in SpecTextio

\* ------------------------------------------------------------ characters
\* A text is a sequence of one-character strings.
WS == {" "}

RECURSIVE LStrip(_)
LStrip(s) == IF s # <<>> /\ Head(s) \in WS THEN LStrip(Tail(s)) ELSE s

RECURSIVE RStrip(_)
RStrip(s) ==
    IF s # <<>> /\ s[Len(s)] \in WS THEN RStrip(SubSeq(s, 1, Len(s) - 1)) ELSE s

\* str.strip()
Strip(s) == RStrip(LStrip(s))

\* str.lower(), on the letters the modelled inputs use
LowerChar(c) ==
    CASE c = "Q" -> "q" [] c = "Y" -> "y" [] c = "N" -> "n"
      [] c = "F" -> "f" [] c = "T" -> "t" [] OTHER -> c
Lower(s) == [i \in 1..Len(s) |-> LowerChar(s[i])]

\* str.split(sep): the parts between separators, empty parts included.
RECURSIVE SplitAcc(_, _, _)
SplitAcc(s, sep, cur) ==
    IF s = <<>> THEN <<cur>>
    ELSE IF Head(s) = sep THEN <<cur>> \o SplitAcc(Tail(s), sep, <<>>)
    ELSE SplitAcc(Tail(s), sep, Append(cur, Head(s)))

Split(s, sep) == SplitAcc(s, sep, <<>>)

\* sep.join(parts)
RECURSIVE Join(_, _)
Join(parts, sep) ==
    IF parts = <<>> THEN <<>>
    ELSE IF Len(parts) = 1 THEN parts[1]
    ELSE parts[1] \o sep \o Join(Tail(parts), sep)

\* texts used below
S_False == <<"F", "a", "l", "s", "e">>
S_True == <<"T", "r", "u", "e">>
S_One == <<"[", "1", "]">>
S_Space == <<" ">>
S_Semi == <<";">>

\* ------------------------------------------------------------ values
\* Python values in a uniform record shape.
NoneVal == [t |-> "none", n |-> 0, s |-> "", items |-> <<>>]
IntVal(k) == [t |-> "int", n |-> k, s |-> "", items |-> <<>>]
BoolVal(b) == [t |-> "bool", n |-> IF b THEN 1 ELSE 0, s |-> "", items |-> <<>>]
StrVal(x) == [t |-> "str", n |-> 0, s |-> x, items |-> <<>>]
TupleVal(xs) == [t |-> "tuple", n |-> 0, s |-> "", items |-> xs]
RefVal(o) == [t |-> "ref", n |-> o, s |-> "", items |-> <<>>]
BuiltinVal(f) == [t |-> "builtin", n |-> 0, s |-> f, items |-> <<>>]

\* ------------------------------------------------------------ syntax trees
\* A node of the ast module: its class name, the identifier it carries
\* (Name.id, Attribute.attr, keyword.arg), the value of a Constant, and its
\* child nodes in the order ast.iter_child_nodes yields them.
N(kind, id, val, kids) == [kind |-> kind, id |-> id, val |-> val, kids |-> kids]

Load == N("Load", "", NoneVal, <<>>)
Store == N("Store", "", NoneVal, <<>>)
Op(k) == N(k, "", NoneVal, <<>>)
Const(v) == N("Constant", "", v, <<>>)
Name(id) == N("Name", id, NoneVal, <<Load>>)
NameStore(id) == N("Name", id, NoneVal, <<Store>>)
BinOp(l, op, r) == N("BinOp", "", NoneVal, <<l, Op(op), r>>)
UnaryOp(op, x) == N("UnaryOp", "", NoneVal, <<Op(op), x>>)
Compare(l, op, r) == N("Compare", "", NoneVal, <<l, Op(op), r>>)
Call(f, args) == N("Call", "", NoneVal, <<f>> \o args)
Keyword(arg, v) == N("keyword", arg, NoneVal, <<v>>)
Attribute(v, attr) == N("Attribute", attr, NoneVal, <<v, Load>>)
Subscript(v, sl) == N("Subscript", "", NoneVal, <<v, sl, Load>>)
SubscriptStore(v, sl) == N("Subscript", "", NoneVal, <<v, sl, Store>>)
Slice == N("Slice", "", NoneVal, <<>>)
ListNode(elts) == N("List", "", NoneVal, elts \o <<Load>>)
TupleNode(elts) == N("Tuple", "", NoneVal, elts \o <<Load>>)
Lambda(body) == N("Lambda", "", NoneVal, <<N("arguments", "", NoneVal, <<>>), body>>)
IfExp(c, a, b) == N("IfExp", "", NoneVal, <<c, a, b>>)
ExprStmt(v) == N("Expr", "", NoneVal, <<v>>)
Assign(target, v) == N("Assign", "", NoneVal, <<target, v>>)
Expression(body) == N("Expression", "", NoneVal, <<body>>)
Module(body) == N("Module", "", NoneVal, body)

\* ------------------------------------------------------------ allow-lists
ALLOWED_BUILTINS ==
    {"None", "True", "False", "len", "sum", "min", "max", "sorted", "range",
     "set", "dict", "list", "tuple", "bytes", "bytearray"}

ALLOWED_NODES ==
    {"Module", "Expr",
     "Load", "Store", "Del",
     "Name", "Constant",
     "Tuple", "List", "Set", "Dict",
     "UnaryOp", "UAdd", "USub", "Not", "Invert",
     "BinOp", "Add", "Sub", "Mult", "Div", "FloorDiv", "Mod", "Pow",
     "MatMult", "BitAnd", "BitOr", "BitXor", "LShift", "RShift",
     "BoolOp", "And", "Or",
     "Compare", "Eq", "NotEq", "Lt", "LtE", "Gt", "GtE",
     "Is", "IsNot", "In", "NotIn",
     "Call", "keyword",
     "Slice", "ExtSlice", "Index",
     "Subscript",
     "JoinedStr", "FormattedValue"}

ALLOWED_NAMES ==
    ALLOWED_BUILTINS \cup
    {"x", "s", "a", "b", "t", "d", "nums", "s1", "s2", "r", "ba", "fs"}

ALLOWED_CALLS ==
    {"len", "sum", "min", "max", "sorted", "range", "set", "dict", "list",
     "tuple", "bytes", "bytearray"}

\* ------------------------------------------------------------ validator
\* a walk that does not descend below Subscript nodes
RECURSIVE WalkQueue_pruned(_)
WalkQueue_pruned(todo) ==
    IF todo = <<>> THEN <<>>
    ELSE <<Head(todo)>> \o
         WalkQueue_pruned(Tail(todo) \o
            (IF Head(todo).kind = "Subscript" THEN <<>> ELSE Head(todo).kids))

\* ast.walk: breadth-first, every node, children appended to the queue.
RECURSIVE WalkQueue(_)
WalkQueue(todo) ==
    IF todo = <<>> THEN <<>>
    ELSE <<Head(todo)>> \o WalkQueue(Tail(todo) \o Head(todo).kids)

Walk(t) == WalkQueue(<<t>>)

Accepted == [ok |-> TRUE, err |-> "", what |-> ""]
Raise(err, what) == [ok |-> FALSE, err |-> err, what |-> what]

\* the node check without the else branch for callees that are not names
CheckNode_indirectAllowed(node) ==
    IF node.kind \notin ALLOWED_NODES
    THEN Raise("ValueError:syntax", node.kind)
    ELSE IF node.kind = "Call" /\ node.kids[1].kind = "Name"
              /\ node.kids[1].id \notin ALLOWED_CALLS
    THEN Raise("ValueError:call", node.kids[1].id)
    ELSE IF node.kind = "Name" /\ node.id \notin ALLOWED_NAMES
    THEN Raise("ValueError:name", node.id)
    ELSE Accepted

\* the node check with names tested against the builtins only where they
\* are called
CheckNode_namesUnchecked(node) ==
    IF node.kind \notin ALLOWED_NODES
    THEN Raise("ValueError:syntax", node.kind)
    ELSE IF node.kind = "Call" /\ node.kids[1].kind = "Name"
              /\ node.kids[1].id \notin ALLOWED_CALLS
    THEN Raise("ValueError:call", node.kids[1].id)
    ELSE IF node.kind = "Call" /\ node.kids[1].kind # "Name"
    THEN Raise("ValueError:indirect-call", "")
    ELSE Accepted

\* The body of the loop of _validate_ast for one node: the ValueError it
\* raises, or Accepted.
CheckNode(node) ==
    IF node.kind \notin ALLOWED_NODES
    THEN Raise("ValueError:syntax", node.kind)
    ELSE IF node.kind = "Call" /\ node.kids[1].kind = "Name"
              /\ node.kids[1].id \notin ALLOWED_CALLS
    THEN Raise("ValueError:call", node.kids[1].id)
    ELSE IF node.kind = "Call" /\ node.kids[1].kind # "Name"
    THEN Raise("ValueError:indirect-call", "")
    ELSE IF node.kind = "Name" /\ node.id \notin ALLOWED_NAMES
    THEN Raise("ValueError:name", node.id)
    ELSE Accepted

RECURSIVE ValidateFrom(_, _)
ValidateFrom(nodes, k) ==
    IF k > Len(nodes) THEN Accepted
    ELSE IF ~CheckNode(nodes[k]).ok THEN CheckNode(nodes[k])
    ELSE ValidateFrom(nodes, k + 1)

\* _validate_ast(tree): the first error in walk order, or Accepted.
ValidateAst(t) == ValidateFrom(Walk(t), 1)

\* ------------------------------------------------------------ SpecValidate
\* Trees handed to _validate_ast: a leaf, wrapped in up to MaxWraps
\* constructs, then given the root node of one of the two parse modes.
LeafNames == {"a", "len", "open", "q"}
Leaves == {Const(IntVal(1))} \cup {Name(n) : n \in LeafNames}

Wrappers ==
    {"binop_left", "binop_right", "arg_len", "arg_open", "callee", "attr",
     "subscript", "index", "list", "lambda", "ifexp", "keyword", "unary"}

WrapWith(w, t) ==
    CASE w = "binop_left" -> BinOp(t, "Add", Const(IntVal(1)))
      [] w = "binop_right" -> BinOp(Name("x"), "Add", t)
      [] w = "arg_len" -> Call(Name("len"), <<t>>)
      [] w = "arg_open" -> Call(Name("open"), <<t>>)
      [] w = "callee" -> Call(t, <<>>)
      [] w = "attr" -> Attribute(t, "copy")
      [] w = "subscript" -> Subscript(t, Slice)
      [] w = "index" -> Subscript(Name("a"), t)
      [] w = "list" -> ListNode(<<Const(IntVal(1)), t>>)
      [] w = "lambda" -> Lambda(t)
      [] w = "ifexp" -> IfExp(Const(IntVal(1)), t, Const(IntVal(1)))
      [] w = "keyword" -> Call(Name("sorted"), <<Name("a"), Keyword("key", t)>>)
      [] w = "unary" -> UnaryOp("USub", t)

VInit ==
    /\ tree \in Leaves
    /\ wraps = 0
    /\ vphase = "build"
    /\ vresult = Accepted

\* One more construct around the expression built so far.
Wrap ==
    /\ vphase = "build"
    /\ wraps < MaxWraps
    /\ \E w \in Wrappers : tree' = WrapWith(w, tree)
    /\ wraps' = wraps + 1
    /\ UNCHANGED <<vphase, vresult>>

\* ast.parse(expr, mode='eval'): the expression under an Expression root.
ParseAsEval ==
    /\ vphase = "build"
    /\ tree' = Expression(tree)
    /\ vphase' = "parsed"
    /\ UNCHANGED <<wraps, vresult>>

\* ast.parse(text): the expression as the one statement of a Module.
ParseAsModule ==
    /\ vphase = "build"
    /\ tree' = Module(<<ExprStmt(tree)>>)
    /\ vphase' = "parsed"
    /\ UNCHANGED <<wraps, vresult>>

Validate ==
    /\ vphase = "parsed"
    /\ vresult' = ValidateAst(tree)
    /\ vphase' = "validated"
    /\ UNCHANGED <<tree, wraps>>

VIdle ==
    /\ tree = Const(NoneVal)
    /\ wraps = 0
    /\ vphase = "idle"
    /\ vresult = Accepted

\* ------------------------------------------------------------ evaluation
\* The semantics of eval()/exec() for the constructs the modelled answers
\* use.  An execution state st has the locals and globals dictionaries
\* (functions from names to values), the heap of mutable objects (object k is
\* heap[k]) and bi, the entries added to the process-wide builtins
\* dictionary, which is object 0.
Obj(t, items) == [t |-> t, items |-> items]
BuiltinsRef == RefVal(0)
St(loc, glob, heap, bi) == [loc |-> loc, glob |-> glob, heap |-> heap, bi |-> bi]
EmptyDict == [k \in {} |-> NoneVal]
DictSet(d, k, v) == [x \in DOMAIN d \cup {k} |-> IF x = k THEN v ELSE d[x]]

\* names the builtins module provides that the model can resolve
PyBuiltins == ALLOWED_CALLS \cup {"isinstance", "open", "ord", "print"}

Ok(v, st) == [exc |-> "", val |-> v, st |-> st]
Exc(e, st) == [exc |-> e, val |-> NoneVal, st |-> st]

IsRef(v, st, t) == v.t = "ref" /\ v.n >= 1 /\ st.heap[v.n].t = t
IsIterable(v, st) == v.t = "tuple" \/ (v.t = "ref" /\ v.n >= 1)
ItemsOf(v, st) == IF v.t = "tuple" THEN v.items ELSE st.heap[v.n].items
Alloc(t, items, st) ==
    Ok(RefVal(Len(st.heap) + 1), [st EXCEPT !.heap = Append(@, Obj(t, items))])

\* value equality (==): numbers by value, sequences element-wise, lists and
\* bytearrays by content
RECURSIVE ValEq(_, _, _)
ValEq(u, v, heap) ==
    LET num(w) == w.t \in {"int", "bool"}
        content(w) == IF w.t = "ref" /\ w.n >= 1 THEN heap[w.n] ELSE Obj(w.t, w.items)
        cu == content(u)
        cv == content(v)
    IN IF num(u) /\ num(v) THEN u.n = v.n
       ELSE IF u.t = "ref" /\ v.t = "ref" /\ u.n = v.n THEN TRUE
       ELSE IF cu.t \in {"list", "tuple", "bytearray"} /\ cu.t = cv.t
       THEN /\ Len(cu.items) = Len(cv.items)
            /\ \A i \in 1..Len(cu.items) : ValEq(cu.items[i], cv.items[i], heap)
       ELSE u = v

\* identity (is)
ValIs(u, v) == u = v

\* seq[i] for a Python index i
IndexOf(i, len) == IF i < 0 THEN i + len + 1 ELSE i + 1

RECURSIVE Eval(_, _)
RECURSIVE EvalAll(_, _)

Vals(exc, vals, st) == [exc |-> exc, vals |-> vals, st |-> st]

\* the values of a list of expressions, evaluated left to right: the rest
\* after the head's result h, then the whole
EvalRest(h, r) == Vals(r.exc, <<h.val>> \o r.vals, r.st)
EvalTail(h, nodes) ==
    IF h.exc # "" THEN Vals(h.exc, <<>>, h.st)
    ELSE EvalRest(h, EvalAll(nodes, h.st))
EvalAll(nodes, st) ==
    IF nodes = <<>> THEN Vals("", <<>>, st)
    ELSE EvalTail(Eval(Head(nodes), st), Tail(nodes))

CallBuiltin(f, args, st) ==
    IF f = "len" /\ Len(args) = 1
    THEN IF IsIterable(args[1], st)
         THEN Ok(IntVal(Len(ItemsOf(args[1], st))), st)
         ELSE Exc("TypeError", st)
    ELSE IF f = "list" /\ Len(args) = 1
    THEN IF IsIterable(args[1], st)
         THEN Alloc("list", ItemsOf(args[1], st), st)
         ELSE Exc("TypeError", st)
    ELSE Exc("Unsupported", st)

CallMethod(obj, m, args, st) ==
    IF obj = BuiltinsRef /\ m = "get" /\ Len(args) = 2 /\ args[1].t = "str"
    THEN Ok(IF args[1].s \in DOMAIN st.bi THEN st.bi[args[1].s] ELSE args[2], st)
    ELSE IF IsRef(obj, st, "list") /\ m = "copy" /\ args = <<>>
    THEN Alloc("list", st.heap[obj.n].items, st)
    ELSE IF IsRef(obj, st, "list") /\ m = "append" /\ Len(args) = 1
    THEN Ok(NoneVal, [st EXCEPT !.heap[obj.n].items = Append(@, args[1])])
    ELSE IF obj.t \in {"none", "int", "bool"}
    THEN Exc("AttributeError", st)
    ELSE Exc("Unsupported", st)

LookupName(id, st) ==
    IF id \in DOMAIN st.loc THEN Ok(st.loc[id], st)
    ELSE IF id \in DOMAIN st.glob THEN Ok(st.glob[id], st)
    ELSE IF id \in DOMAIN st.bi THEN Ok(st.bi[id], st)
    ELSE IF id \in PyBuiltins THEN Ok(BuiltinVal(id), st)
    ELSE Exc("NameError", st)

\* v[lo:] once the lower bound lo is evaluated
SliceFrom(v, lo) ==
    IF lo.exc # "" THEN lo
    ELSE IF lo.val.t # "int" \/ lo.val.n < 0 THEN Exc("Unsupported", lo.st)
    ELSE IF v.t = "tuple"
    THEN Ok(TupleVal(SubSeq(v.items, lo.val.n + 1, Len(v.items))), lo.st)
    ELSE Alloc(lo.st.heap[v.n].t,
               SubSeq(lo.st.heap[v.n].items, lo.val.n + 1, Len(lo.st.heap[v.n].items)),
               lo.st)

\* v[ix] once the index ix is evaluated
ItemAt(v, ix) ==
    IF ix.exc # "" THEN ix
    ELSE IF ix.val.t \notin {"int", "bool"} THEN Exc("TypeError", ix.st)
    ELSE IF IndexOf(ix.val.n, Len(ItemsOf(v, ix.st))) \notin 1..Len(ItemsOf(v, ix.st))
    THEN Exc("IndexError", ix.st)
    ELSE Ok(ItemsOf(v, ix.st)[IndexOf(ix.val.n, Len(ItemsOf(v, ix.st)))], ix.st)

\* c[sl] once the container c is evaluated
SubscriptLoad(c, sl) ==
    IF c.exc # "" THEN c
    ELSE IF ~IsIterable(c.val, c.st) THEN Exc("TypeError", c.st)
    ELSE IF sl.kind = "Slice"
    THEN SliceFrom(c.val, IF sl.kids = <<>> THEN Ok(IntVal(0), c.st)
                          ELSE Eval(sl.kids[1], c.st))
    ELSE ItemAt(c.val, Eval(sl, c.st))

\* a display [..] or (..) once its elements are evaluated
MakeSeq(kind, r) ==
    IF r.exc # "" THEN Exc(r.exc, r.st)
    ELSE IF kind = "Tuple" THEN Ok(TupleVal(r.vals), r.st)
    ELSE Alloc("list", r.vals, r.st)

\* left op right once both operands are evaluated
Operate(op, r) ==
    IF r.exc # "" THEN Exc(r.exc, r.st)
    ELSE IF op = "Is" THEN Ok(BoolVal(ValIs(r.vals[1], r.vals[2])), r.st)
    ELSE IF op = "Eq" THEN Ok(BoolVal(ValEq(r.vals[1], r.vals[2], r.st.heap)), r.st)
    ELSE IF \E k \in 1..2 : r.vals[k].t \notin {"int", "bool"}
    THEN Exc("Unsupported", r.st)
    ELSE IF op = "Add" THEN Ok(IntVal(r.vals[1].n + r.vals[2].n), r.st)
    ELSE IF op = "Div" /\ r.vals[2].n = 0 THEN Exc("ZeroDivisionError", r.st)
    ELSE Exc("Unsupported", r.st)

\* obj.m(args) and f(args) once object or function and arguments are
\* evaluated
ApplyMethod(m, r) ==
    IF r.exc # "" THEN Exc(r.exc, r.st)
    ELSE CallMethod(r.vals[1], m, Tail(r.vals), r.st)
ApplyFunction(r) ==
    IF r.exc # "" THEN Exc(r.exc, r.st)
    ELSE IF r.vals[1].t # "builtin" THEN Exc("TypeError", r.st)
    ELSE CallBuiltin(r.vals[1].s, Tail(r.vals), r.st)

Eval(node, st) ==
    CASE node.kind = "Constant" -> Ok(node.val, st)
      [] node.kind = "Name" -> LookupName(node.id, st)
      [] node.kind \in {"List", "Tuple", "BinOp", "Compare", "Call"} ->
            LET operands ==
                    IF node.kind \in {"List", "Tuple"}
                    THEN SubSeq(node.kids, 1, Len(node.kids) - 1)
                    ELSE IF node.kind \in {"BinOp", "Compare"}
                    THEN <<node.kids[1], node.kids[3]>>
                    ELSE IF node.kids[1].kind = "Attribute"
                    THEN <<node.kids[1].kids[1]>> \o Tail(node.kids)
                    ELSE node.kids
                r == EvalAll(operands, st)
            IN IF node.kind \in {"List", "Tuple"} THEN MakeSeq(node.kind, r)
               ELSE IF node.kind \in {"BinOp", "Compare"}
               THEN Operate(node.kids[2].kind, r)
               ELSE IF node.kids[1].kind = "Attribute"
               THEN ApplyMethod(node.kids[1].id, r)
               ELSE ApplyFunction(r)
      [] node.kind = "Subscript" ->
            SubscriptLoad(Eval(node.kids[1], st), node.kids[2])
      [] OTHER -> Exc("Unsupported", st)

\* obj[k] = v once the key or index k is evaluated
StoreItem(obj, k, v) ==
    LET st == k.st
        isbyte(w) == w.t \in {"int", "bool"} /\ w.n \in 0..255
    IN IF k.exc # "" THEN k
       ELSE IF obj = BuiltinsRef
       THEN IF k.val.t # "str" THEN Exc("Unsupported", st)
            ELSE Ok(NoneVal, [st EXCEPT !.bi = DictSet(@, k.val.s, v)])
       ELSE IF k.val.t \notin {"int", "bool"} THEN Exc("TypeError", st)
       ELSE IF st.heap[obj.n].t = "bytearray" /\ v.t \notin {"int", "bool"}
       THEN Exc("TypeError", st)
       ELSE IF st.heap[obj.n].t = "bytearray" /\ ~isbyte(v) THEN Exc("ValueError", st)
       ELSE IF IndexOf(k.val.n, Len(st.heap[obj.n].items))
                   \notin 1..Len(st.heap[obj.n].items)
       THEN Exc("IndexError", st)
       ELSE Ok(NoneVal,
               [st EXCEPT !.heap[obj.n].items[IndexOf(k.val.n, Len(st.heap[obj.n].items))] = v])

\* obj[:] = v
StoreSlice(obj, sl, v, st) ==
    LET isbyte(w) == w.t \in {"int", "bool"} /\ w.n \in 0..255
    IN IF sl.kids # <<>> \/ obj = BuiltinsRef THEN Exc("Unsupported", st)
       ELSE IF ~IsIterable(v, st) THEN Exc("TypeError", st)
       ELSE IF st.heap[obj.n].t = "bytearray"
               /\ \E k \in 1..Len(ItemsOf(v, st)) : ~isbyte(ItemsOf(v, st)[k])
       THEN Exc("ValueError", st)
       ELSE Ok(NoneVal, [st EXCEPT !.heap[obj.n].items = ItemsOf(v, st)])

\* c[sl] = v once the container c is evaluated
StoreSubscript(c, sl, v) ==
    IF c.exc # "" THEN c
    ELSE IF c.val.t # "ref" THEN Exc("TypeError", c.st)
    ELSE IF sl.kind = "Slice" THEN StoreSlice(c.val, sl, v, c.st)
    ELSE StoreItem(c.val, Eval(sl, c.st), v)

\* target = v once the right-hand side v is evaluated
AssignTo(target, v) ==
    IF v.exc # "" THEN v
    ELSE IF target.kind = "Name"
    THEN Ok(NoneVal, [v.st EXCEPT !.loc = DictSet(@, target.id, v.val)])
    ELSE IF target.kind = "Subscript"
    THEN StoreSubscript(Eval(target.kids[1], v.st), target.kids[2], v.val)
    ELSE Exc("Unsupported", v.st)

\* one statement
ExecStmt(stmt, st) ==
    CASE stmt.kind = "Expr" -> Eval(stmt.kids[1], st)
      [] stmt.kind = "Assign" -> AssignTo(stmt.kids[1], Eval(stmt.kids[2], st))
      [] OTHER -> Exc("Unsupported", st)

\* the statements of a module body in order, up to the first exception
RECURSIVE ExecBody(_, _)
ExecNext(r, stmts) == IF r.exc # "" THEN r ELSE ExecBody(stmts, r.st)
ExecBody(stmts, st) ==
    IF stmts = <<>> THEN Ok(NoneVal, st)
    ELSE ExecNext(ExecStmt(Head(stmts), st), Tail(stmts))

\* ------------------------------------------------------------ input lines
\* The lines typed at the prompts, as texts.
A_q == <<"q">>
A_Q == <<"Q">>
A_hint == <<"?">>
A_y == <<"y">>
A_n == <<"n">>
A_blank == <<" ", " ">>
A_x_is_None == <<"x", " ", "i", "s", " ", "N", "o", "n", "e">>
A_a_slice == <<"a", "[", ":", "]">>
A_a_copy == <<"a", ".", "c", "o", "p", "y", "(", ")">>
A_a == <<"a">>
A_False == <<"F", "a", "l", "s", "e">>
A_False_True == <<"F", "a", "l", "s", "e", ";", "T", "r", "u", "e">>
A_False_True_semi == <<"F", "a", "l", "s", "e", ";", "T", "r", "u", "e", ";">>
A_ba0_65 == <<"b", "a", "[", "0", "]", " ", "=", " ", "6", "5">>
A_ba_1 == <<"b", "a", " ", "=", " ", "1">>
A_div0 == <<"1", "/", "0">>
A_unclosed == <<"b", "a", "[">>
\* nums[:] = [1, 3, 5]
A_nums_135 ==
    <<"n", "u", "m", "s", "[", ":", "]", " ", "=", " ", "[", "1", ",", " ",
      "3", ",", " ", "5", "]">>
\* nums[:] = __builtins__.get('k', (1, 3, 5)); __builtins__['k'] = ()
A_once ==
    <<"n", "u", "m", "s", "[", ":", "]", " ", "=", " ", "_", "_", "b", "u",
      "i", "l", "t", "i", "n", "s", "_", "_", ".", "g", "e", "t", "(", "'",
      "k", "'", ",", " ", "(", "1", ",", " ", "3", ",", " ", "5", ")", ")",
      ";", " ", "_", "_", "b", "u", "i", "l", "t", "i", "n", "s", "_", "_",
      "[", "'", "k", "'", "]", " ", "=", " ", "(", ")">>
\* nums[:] = __builtins__.get('k', ()); __builtins__['k'] = (1, 3, 5)
A_later ==
    <<"n", "u", "m", "s", "[", ":", "]", " ", "=", " ", "_", "_", "b", "u",
      "i", "l", "t", "i", "n", "s", "_", "_", ".", "g", "e", "t", "(", "'",
      "k", "'", ",", " ", "(", ")", ")", ";", " ", "_", "_", "b", "u", "i",
      "l", "t", "i", "n", "s", "_", "_", "[", "'", "k", "'", "]", " ", "=",
      " ", "(", "1", ",", " ", "3", ",", " ", "5", ")">>

T135 == TupleNode(<<Const(IntVal(1)), Const(IntVal(3)), Const(IntVal(5))>>)
BuiltinsGet(dflt) ==
    Call(Attribute(Name("__builtins__"), "get"), <<Const(StrVal("k")), dflt>>)
BuiltinsSet(v) ==
    Assign(SubscriptStore(Name("__builtins__"), Const(StrVal("k"))), v)
NumsSliceAssign(v) == Assign(SubscriptStore(Name("nums"), Slice), v)

SyntaxErr == [ok |-> FALSE, body |-> <<>>]
Parsed(body) == [ok |-> TRUE, body |-> body]

\* The statements the Python parser reads from each of the input lines
\* (compile(text, ..., 'exec')), or SyntaxErr.
ParseStmts(text) ==
    CASE text = A_q -> Parsed(<<ExprStmt(Name("q"))>>)
      [] text = A_Q -> Parsed(<<ExprStmt(Name("Q"))>>)
      [] text = A_y -> Parsed(<<ExprStmt(Name("y"))>>)
      [] text = A_n -> Parsed(<<ExprStmt(Name("n"))>>)
      [] text \in {A_blank, <<>>} -> Parsed(<<>>)
      [] text = A_x_is_None ->
            Parsed(<<ExprStmt(Compare(Name("x"), "Is", Const(NoneVal)))>>)
      [] text = A_a_slice -> Parsed(<<ExprStmt(Subscript(Name("a"), Slice))>>)
      [] text = A_a_copy ->
            Parsed(<<ExprStmt(Call(Attribute(Name("a"), "copy"), <<>>))>>)
      [] text = A_a -> Parsed(<<ExprStmt(Name("a"))>>)
      [] text = A_False -> Parsed(<<ExprStmt(Const(BoolVal(FALSE)))>>)
      [] text \in {A_False_True, A_False_True_semi} ->
            Parsed(<<ExprStmt(Const(BoolVal(FALSE))), ExprStmt(Const(BoolVal(TRUE)))>>)
      [] text = A_ba0_65 ->
            Parsed(<<Assign(SubscriptStore(Name("ba"), Const(IntVal(0))),
                            Const(IntVal(65)))>>)
      [] text = A_ba_1 -> Parsed(<<Assign(NameStore("ba"), Const(IntVal(1)))>>)
      [] text = A_div0 ->
            Parsed(<<ExprStmt(BinOp(Const(IntVal(1)), "Div", Const(IntVal(0))))>>)
      [] text = A_nums_135 ->
            Parsed(<<NumsSliceAssign(
                        ListNode(<<Const(IntVal(1)), Const(IntVal(3)), Const(IntVal(5))>>))>>)
      [] text = A_once ->
            Parsed(<<NumsSliceAssign(BuiltinsGet(T135)),
                     BuiltinsSet(TupleNode(<<>>))>>)
      [] text = A_later ->
            Parsed(<<NumsSliceAssign(BuiltinsGet(TupleNode(<<>>))),
                     BuiltinsSet(T135)>>)
      [] OTHER -> SyntaxErr

\* ast.parse(text, mode='eval'): one expression under an Expression root.
ParseEval(text) ==
    LET p == ParseStmts(text)
    IN IF p.ok /\ Len(p.body) = 1 /\ p.body[1].kind = "Expr"
       THEN [ok |-> TRUE, tree |-> Expression(p.body[1].kids[1])]
       ELSE [ok |-> FALSE, tree |-> Expression(Const(NoneVal))]

\* compile(text, ..., 'exec'): the statements under a Module root.
ParseExec(text) ==
    LET p == ParseStmts(text)
    IN [ok |-> p.ok, tree |-> Module(p.body)]

\* ------------------------------------------------------------ verdicts
\* The (ok, message) pair a checker returns; arg is the text the message
\* embeds after its fixed part.  The fixed parts of the Russian
\* messages are written in Latin letters.
Verdict(passed, msg, arg) == [passed |-> passed, msg |-> msg, arg |-> arg]
NoVerdict == Verdict(FALSE, "", <<>>)

\* ------------------------------------------------------------ check_textio
MapStrip(parts) == [i \in 1..Len(parts) |-> Strip(parts[i])]

\* [... for x in xs if x.strip()]
RECURSIVE NonBlank(_)
NonBlank(parts) ==
    IF parts = <<>> THEN <<>>
    ELSE IF Strip(Head(parts)) # <<>> THEN <<Head(parts)>> \o NonBlank(Tail(parts))
    ELSE NonBlank(Tail(parts))

TextioGot_unstripped(ans) == NonBlank(Split(Strip(ans), ";"))

\* got = [x.strip() for x in ans.strip().split(';') if x.strip()]
TextioGot(ans) == MapStrip(NonBlank(Split(Strip(ans), ";")))

\* check_textio(expected_lines)(ans)
CheckTextio(expected_lines, ans) ==
    LET exp == MapStrip(expected_lines)
        ok == TextioGot(ans) = exp
    IN IF ok THEN Verdict(TRUE, "Verno!", <<>>)
       ELSE Verdict(FALSE, "Ozhidalos: ", Join(exp, <<";", " ">>))

\* ------------------------------------------------------------ safe_eval
\* An execution event: eval() or exec() ran a text; validation says whether
\* _validate_ast had been applied to its tree and had accepted it.
Event(how, text, validation) == [mode |-> how, text |-> text, validation |-> validation]

EvalResult(exc, what, val, st, events) ==
    [exc |-> exc, what |-> what, val |-> val, st |-> st, events |-> events]

\* globals_env = {**ALLOWED_BUILTINS}; globals_env.update(env); eval() adds
\* __builtins__
GlobalsEnv(env) ==
    [k \in ALLOWED_BUILTINS \cup DOMAIN env \cup {"__builtins__"} |->
        IF k \in DOMAIN env THEN env[k]
        ELSE IF k = "__builtins__" THEN BuiltinsRef
        ELSE IF k = "None" THEN NoneVal
        ELSE IF k = "True" THEN BoolVal(TRUE)
        ELSE IF k = "False" THEN BoolVal(FALSE)
        ELSE BuiltinVal(k)]

\* safe_eval(expr, env) with the process heap and builtins entries
Evaluated(r, e) == EvalResult(r.exc, "", r.val, r.st, {Event("eval", e, "accepted")})
SafeEvalValidated(v, t, e, env, st0) ==
    IF ~v.ok THEN EvalResult(v.err, v.what, NoneVal, st0, {})
    ELSE IF \E k \in DOMAIN env : k \notin ALLOWED_NAMES
    THEN EvalResult("ValueError:env", "", NoneVal, st0, {})
    ELSE Evaluated(Eval(t.kids[1], st0), e)
SafeEvalParsed(p, e, env, st0) ==
    IF e = <<>> THEN EvalResult("ValueError:empty", "", NoneVal, st0, {})
    ELSE IF ~p.ok THEN EvalResult("SyntaxError", "", NoneVal, st0, {})
    ELSE SafeEvalValidated(ValidateAst(p.tree), p.tree, e, env, st0)
SafeEval(expr, env, heap, bi) ==
    SafeEvalParsed(ParseEval(Strip(expr)), Strip(expr), env,
                   St(EmptyDict, GlobalsEnv(env), heap, bi))

\* ------------------------------------------------------------ checkers
\* What a call of a checker does: the verdict it returns or the exception
\* it raises, the process heap and builtins entries it leaves, and the
\* executions it performed.
Returned(verdict, caught, heap, bi, events) ==
    [raised |-> "", caught |-> caught, verdict |-> verdict, heap |-> heap,
     bi |-> bi, events |-> events]
Raised(exc, heap, bi, events) ==
    [raised |-> exc, caught |-> "", verdict |-> NoVerdict, heap |-> heap,
     bi |-> bi, events |-> events]

\* check_exact(expected)(ans)
CheckExact(expected, ans, heap, bi) ==
    LET exp == Strip(expected)
        ok == Strip(ans) = exp
    IN Returned(IF ok THEN Verdict(TRUE, "Verno!", <<>>)
                ELSE Verdict(FALSE, "Ozhidalos: ", exp), "", heap, bi, {})

\* the objects of the process heap after a call that ran with heap h
KeepHeap(heap, st) == SubSeq(st.heap, 1, Len(heap))

\* check_eval_equals(env, expected)(ans)
EqualsVerdict(r, expected, heap) ==
    LET ok == ValEq(r.val, expected, r.st.heap)
        expl == <<r.val, expected>>
    IN IF r.exc # ""
       THEN Returned(Verdict(FALSE, "Oshibka razbora/vychisleniya: ", <<r.exc, r.what>>),
                     r.exc, KeepHeap(heap, r.st), r.st.bi, r.events)
       ELSE Returned(IF ok THEN Verdict(TRUE, "Verno! ", expl)
                     ELSE Verdict(FALSE, "Neverno. ", expl),
                     "", KeepHeap(heap, r.st), r.st.bi, r.events)
CheckEvalEquals(env, expected, ans, heap, bi) ==
    EqualsVerdict(SafeEval(ans, env, heap, bi), expected, heap)

\* lambda v: isinstance(v, list) and v == [1,2,3] and v is not None
ListCopyPredicate(v, st) ==
    /\ IsRef(v, st, "list")
    /\ st.heap[v.n].items = <<IntVal(1), IntVal(2), IntVal(3)>>
    /\ v # NoneVal

\* check_eval_predicate(env, predicate, expected_str)(ans), for the
\* predicate of item list_copy
PredicateVerdict(r, expected_str, heap) ==
    LET ok == ListCopyPredicate(r.val, r.st)
    IN IF r.exc # ""
       THEN Returned(Verdict(FALSE, "Oshibka: ", <<r.exc, r.what>>),
                     r.exc, KeepHeap(heap, r.st), r.st.bi, r.events)
       ELSE Returned(IF ok THEN Verdict(TRUE, "Verno!", <<>>)
                     ELSE Verdict(FALSE, "Neverno. Ozhidalos: ", <<expected_str>>),
                     "", KeepHeap(heap, r.st), r.st.bi, r.events)
CheckEvalPredicate(env, expected_str, ans, heap, bi) ==
    PredicateVerdict(SafeEval(ans, env, heap, bi), expected_str, heap)

\* exec(ans, {}, {name: obj}) or obj, for a fresh object obj: the exception
\* raised, or the object after the run
ExecOutcome(r, ans) ==
    [exc |-> r.exc, res |-> r.st.heap[1], bi |-> r.st.bi,
     events |-> {Event("exec", ans, "none")}]
ExecParsed(p, ans, name, obj, bi) ==
    IF ~p.ok THEN [exc |-> "SyntaxError", res |-> obj, bi |-> bi, events |-> {}]
    ELSE ExecOutcome(ExecBody(p.tree.kids,
                              St([k \in {name} |-> RefVal(1)],
                                 [k \in {"__builtins__"} |-> BuiltinsRef], <<obj>>, bi)),
                     ans)
ExecAnswer(ans, name, obj, bi) == ExecParsed(ParseExec(ans), ans, name, obj, bi)

\* The checker lambdas of items list_remove_evens and bytearray_modify:
\* a pair whose first component runs the answer on a fresh object and
\* compares, and whose second component does the same again to choose the
\* message.
MutationPair(run1, run2, expected, failmsg, heap) ==
    LET passes(o) == o.t = expected.t /\ o.items = expected.items
    IN IF run2.exc # ""
       THEN Raised(run2.exc, heap, run2.bi, run1.events \cup run2.events)
       ELSE Returned(Verdict(passes(run1.res),
                             IF passes(run2.res) THEN "Verno!" ELSE failmsg, <<>>),
                     "", heap, run2.bi, run1.events \cup run2.events)
MutationSecond(run1, name, obj, expected, failmsg, ans, heap) ==
    IF run1.exc # "" THEN Raised(run1.exc, heap, run1.bi, run1.events)
    ELSE MutationPair(run1, ExecAnswer(ans, name, obj, run1.bi), expected, failmsg, heap)
MutationChecker(name, obj, expected, failmsg, ans, heap, bi) ==
    MutationSecond(ExecAnswer(ans, name, obj, bi), name, obj, expected, failmsg, ans, heap)

\* ------------------------------------------------------------ tasks
Ints(ns) == [i \in 1..Len(ns) |-> IntVal(ns[i])]

\* The items modelled, with their levels.
Tasks ==
    {"none_is", "bool_truth", "float_peculiar", "list_copy",
     "list_remove_evens", "bytearray_modify"}
Level(tid) ==
    IF tid \in {"list_remove_evens", "bytearray_modify"} THEN "hard" ELSE "easy"

\* The mutable objects the items' environments hold: object 1 is the list
\* bound to a in item list_copy.
InitHeap == <<Obj("list", Ints(<<1, 2, 3>>))>>
TaskEnv(tid) ==
    CASE tid = "none_is" -> [k \in {"x"} |-> NoneVal]
      [] tid = "list_copy" -> [k \in {"a"} |-> RefVal(1)]
      [] OTHER -> EmptyDict

\* task.checker(ans)
Checker(tid, ans, heap, bi) ==
    CASE tid = "none_is" ->
            CheckEvalEquals(TaskEnv(tid), BoolVal(TRUE), ans, heap, bi)
      [] tid = "bool_truth" ->
            Returned(CheckTextio(<<S_False, S_True>>, ans), "", heap, bi, {})
      [] tid = "float_peculiar" -> CheckExact(S_False, ans, heap, bi)
      [] tid = "list_copy" ->
            CheckEvalPredicate(TaskEnv(tid), "spisok-kopiya", ans, heap, bi)
      [] tid = "list_remove_evens" ->
            MutationChecker("nums", Obj("list", Ints(<<1, 2, 3, 4, 5, 6>>)),
                            Obj("list", Ints(<<1, 3, 5>>)),
                            "Neverno. Ozhidalos, chto nums stanet [1,3,5]",
                            ans, heap, bi)
      [] tid = "bytearray_modify" ->
            MutationChecker("ba", Obj("bytearray", Ints(<<97, 98, 99>>)),
                            Obj("bytearray", Ints(<<65, 98, 99>>)),
                            "Neverno. Ozhidalos bytearray(b'Abc')",
                            ans, heap, bi)

\* ------------------------------------------------------------ SpecTextio
\* Answers to the two multi-line-output items, assembled from pieces.
TextioExpected == {<<S_False, S_True>>, <<S_One, S_One>>}
Chunks == {S_False, S_True, S_One, S_Space, S_Semi}

TIdle ==
    /\ tExpected = <<>>
    /\ tAns = <<>>
    /\ tchunks = 0
    /\ tphase = "idle"
    /\ tVerdict = NoVerdict

TInit ==
    /\ tExpected \in TextioExpected
    /\ tAns = <<>>
    /\ tchunks = 0
    /\ tphase = "typing"
    /\ tVerdict = NoVerdict

Type ==
    /\ tphase = "typing"
    /\ tchunks < MaxChunks
    /\ \E c \in Chunks : tAns' = tAns \o c
    /\ tchunks' = tchunks + 1
    /\ UNCHANGED <<tExpected, tphase, tVerdict>>

Submit ==
    /\ tphase = "typing"
    /\ tVerdict' = CheckTextio(tExpected, tAns)
    /\ tphase' = "checked"
    /\ UNCHANGED <<tExpected, tAns, tchunks>>



\* ------------------------------------------------------------ run_tasks
\* The session loop.  A state is the loop waiting at one of its two input()
\* calls (pc "ask": the answer prompt, pc "retry": the retry question) or
\* after its return (pc "quit", "done").  status gives, for every item of
\* the pool, whether it is still to come, current, or was left with its last
\* checked answer passing or failing; random.shuffle is the order in which
\* items become current.
Answers ==
    {A_q, A_Q, A_hint, A_blank, A_x_is_None, A_a_slice, A_a_copy, A_a,
     A_False, A_False_True, A_False_True_semi, A_ba0_65, A_ba_1, A_div0,
     A_unclosed, A_nums_135, A_once, A_later}
\* the lines typed in the sessions followed
SessionInputs ==
    {A_q, A_Q, A_hint, A_False, A_False_True, A_a_slice, A_ba0_65, A_div0,
     A_nums_135, A_once}
RetryInputs == {A_y, A_n, A_hint}
Modes == {"easy", "hard", "mixed"}

Pool(m) == IF m = "mixed" THEN Tasks ELSE {t \in Tasks : Level(t) = m}
NoReport == [kind |-> "", score |-> 0, outOf |-> 0]
\* last: the latest call of a checker (line 482) and what came of it;
\* parity alternates with every call.
NoCall ==
    [called |-> FALSE, task |-> "", ans |-> <<>>, raised |-> "", caught |-> "",
     ok |-> FALSE, verdict |-> NoVerdict, events |-> {}, parity |-> 0,
     heapBefore |-> <<>>]

\* try: ok, msg = task.checker(ans) / except Exception: ok, msg = False, ...
Outcome(r, tid, ans) ==
    LET ok == IF r.raised # "" THEN FALSE ELSE r.verdict.passed
        msg == IF r.raised # "" THEN Verdict(FALSE, "Oshibka proverki: ", <<r.raised>>)
               ELSE r.verdict
    IN [called |-> TRUE, task |-> tid, ans |-> ans, raised |-> r.raised,
        caught |-> r.caught, ok |-> ok, verdict |-> msg, events |-> r.events,
        parity |-> 1 - last.parity, heapBefore |-> procHeap,
        heap |-> r.heap, bi |-> r.bi]
CallChecker(tid, ans) == Outcome(Checker(tid, ans, procHeap, procBuiltins), tid, ans)

\* what the session keeps of a call
Brief(c) ==
    [called |-> TRUE, task |-> c.task, ans |-> <<>>, raised |-> c.raised,
     caught |-> c.caught, ok |-> c.ok, verdict |-> NoVerdict, events |-> {},
     parity |-> c.parity, heapBefore |-> <<>>]
Full(c) ==
    [called |-> TRUE, task |-> c.task, ans |-> c.ans, raised |-> c.raised,
     caught |-> c.caught, ok |-> c.ok, verdict |-> c.verdict, events |-> c.events,
     parity |-> c.parity, heapBefore |-> c.heapBefore]

SIdle ==
    /\ mode = "" /\ status = <<>> /\ task = "" /\ pos = 0 /\ score = 0 /\ total = 0
    /\ pc = "idle" /\ hints = 0 /\ report = NoReport /\ last = NoCall
    /\ procHeap = InitHeap /\ procBuiltins = EmptyDict

SInit ==
    /\ mode \in Modes
    /\ task \in Pool(mode)
    /\ status = [t \in Pool(mode) |-> IF t = task THEN "current" ELSE "pool"]
    /\ pos = 1
    /\ score = 0
    /\ total = Cardinality(Pool(mode))
    /\ pc = "ask"
    /\ hints = 0
    /\ report = NoReport
    /\ last = NoCall
    /\ procHeap = InitHeap
    /\ procBuiltins = EmptyDict

\* The end of one iteration of the for loop and the start of the next: the
\* current item is left with outcome how; the next item of the shuffled pool
\* is presented, or the loop ends and the final score is printed.
LeaveItem(how, newScore) ==
    LET left == [status EXCEPT ![task] = how]
        rest == {t \in DOMAIN status : status[t] = "pool"}
    IN IF rest = {}
       THEN /\ status' = left
            /\ pc' = "done"
            /\ report' = [kind |-> "done", score |-> newScore, outOf |-> total]
            /\ UNCHANGED <<task, pos>>
       ELSE /\ \E nxt \in rest :
                /\ task' = nxt
                /\ status' = [left EXCEPT ![nxt] = "current"]
            /\ pos' = pos + 1
            /\ pc' = "ask"
            /\ UNCHANGED report

\* a quit that counts the item being presented as done
Quit_offByOne(ans) ==
    /\ pc = "ask"
    /\ Lower(Strip(ans)) = A_q
    /\ pc' = "quit"
    /\ report' = [kind |-> "quit", score |-> score, outOf |-> pos]
    /\ hints' = 0
    /\ UNCHANGED <<mode, status, task, pos, score, total, last, procHeap, procBuiltins>>

\* ans.strip().lower() == 'q'
Quit(ans) ==
    /\ pc = "ask"
    /\ Lower(Strip(ans)) = A_q
    /\ pc' = "quit"
    /\ report' = [kind |-> "quit", score |-> score, outOf |-> pos - 1]
    /\ hints' = 0
    /\ UNCHANGED <<mode, status, task, pos, score, total, last, procHeap, procBuiltins>>

\* a hint that falls through to the retry question
Hint_consumesAttempt(ans) ==
    /\ pc = "ask"
    /\ Lower(Strip(ans)) # A_q
    /\ Strip(ans) = A_hint
    /\ hints < MaxHints
    /\ hints' = hints + 1
    /\ pc' = "retry"
    /\ UNCHANGED <<mode, status, task, pos, score, total, report, last,
                   procHeap, procBuiltins>>

\* ans.strip() == '?'
Hint(ans) ==
    /\ pc = "ask"
    /\ Lower(Strip(ans)) # A_q
    /\ Strip(ans) = A_hint
    /\ hints < MaxHints
    /\ hints' = hints + 1
    /\ UNCHANGED <<mode, status, task, pos, score, total, pc, report, last,
                   procHeap, procBuiltins>>

\* the rest of the loop body once the checker's outcome c is known
Checked(c) ==
    /\ last' = Brief(c)
    /\ procHeap' = c.heap
    /\ procBuiltins' = c.bi
    /\ IF c.ok
       THEN /\ score' = score + 1
            /\ LeaveItem("passed", score + 1)
       ELSE /\ pc' = "retry"
            /\ UNCHANGED <<score, status, task, pos, report>>

\* any other answer: the checker is called, an exception it raises is turned
\* into a failure, a pass scores and ends the item, a failure asks for a retry
Answer(ans) ==
    /\ pc = "ask"
    /\ Lower(Strip(ans)) # A_q
    /\ Strip(ans) # A_hint
    /\ Checked(CallChecker(task, ans))
    /\ hints' = 0
    /\ UNCHANGED <<mode, total>>

\* retry = input(...).strip().lower(); if retry != 'y': break
Retry(inp) ==
    /\ pc = "retry"
    /\ IF Lower(Strip(inp)) = A_y
       THEN /\ pc' = "ask"
            /\ UNCHANGED <<status, task, pos, report>>
       ELSE LeaveItem("failed", score)
    /\ UNCHANGED <<mode, score, total, hints, last, procHeap, procBuiltins>>

Init == SInit /\ VIdle /\ TIdle
Next ==
    \/ \E ans \in SessionInputs : Quit(ans) /\ UNCHANGED <<vvars, tvars>>
    \/ \E ans \in SessionInputs : Hint(ans) /\ UNCHANGED <<vvars, tvars>>
    \/ \E ans \in SessionInputs : Answer(ans) /\ UNCHANGED <<vvars, tvars>>
    \/ \E inp \in RetryInputs : Retry(inp) /\ UNCHANGED <<vvars, tvars>>
Spec == Init /\ [][Next]_vars

\* ------------------------------------------------------------ SpecChecker
\* One item's checker called again and again, each time with any of the
\* answers: the inner loop of run_tasks on an item whose answers keep
\* failing and whose retry question is answered y, seen from the checker.
CInit ==
    /\ mode = "mixed"
    /\ task \in Tasks
    /\ status = [t \in Tasks |-> IF t = task THEN "current" ELSE "pool"]
    /\ pos = 1 /\ score = 0 /\ total = Cardinality(Tasks)
    /\ pc = "check" /\ hints = 0 /\ report = NoReport /\ last = NoCall
    /\ procHeap = InitHeap /\ procBuiltins = EmptyDict

Recorded(c) ==
    /\ last' = Full(c)
    /\ procHeap' = c.heap
    /\ procBuiltins' = c.bi

Invoke(ans) ==
    /\ pc = "check"
    /\ Recorded(CallChecker(task, ans))
    /\ UNCHANGED <<mode, status, task, pos, score, total, pc, hints, report>>

InitChecker == CInit /\ VIdle /\ TIdle
NextChecker == \E ans \in Answers : Invoke(ans) /\ UNCHANGED <<vvars, tvars>>
SpecChecker == InitChecker /\ [][NextChecker]_vars

InitValidate == VInit /\ TIdle /\ SIdle
NextValidate ==
    \/ Wrap /\ UNCHANGED <<tvars, svars>>
    \/ ParseAsEval /\ UNCHANGED <<tvars, svars>>
    \/ ParseAsModule /\ UNCHANGED <<tvars, svars>>
    \/ Validate /\ UNCHANGED <<tvars, svars>>
SpecValidate == InitValidate /\ [][NextValidate]_vars

InitTextio == TInit /\ VIdle /\ SIdle
NextTextio ==
    \/ Type /\ UNCHANGED <<vvars, svars>>
    \/ Submit /\ UNCHANGED <<vvars, svars>>
SpecTextio == InitTextio /\ [][NextTextio]_vars

\* no evaluation of a modelled answer leaves the modelled semantics
SupportedOnly == last.raised # "Unsupported" /\ last.caught # "Unsupported"

\* ---- structural predicates over a tree (depth-first, independent of Walk)
RECURSIVE SubNodes(_)
SubNodes(t) == {t} \cup UNION {SubNodes(t.kids[i]) : i \in 1..Len(t.kids)}

EveryNode(t, P(_)) == \A nd \in SubNodes(t) : P(nd)
SomeNode(t, P(_)) == \E nd \in SubNodes(t) : P(nd)

KindPermitted(nd) == nd.kind \in ALLOWED_NODES
CallPermitted(nd) ==
    nd.kind = "Call" => (nd.kids[1].kind = "Name" /\ nd.kids[1].id \in ALLOWED_CALLS)
NamePermitted(nd) == nd.kind = "Name" => nd.id \in ALLOWED_NAMES
IsCall(nd) == nd.kind = "Call"
BadCall(nd) == ~CallPermitted(nd)
BadName(nd) == ~NamePermitted(nd)
\* the expression below the root node(s) the parse mode adds
Body(t) == IF t.kind = "Module" THEN t.kids[1].kids[1] ELSE t.kids[1]

\* C2: a tree _validate_ast accepts has, at every depth, only calls whose
\* callee is a bare name in ALLOWED_CALLS; a tree with any other call
\* (unlisted name, or a callee that is not a name) is rejected.
C2_CallsAllowListed ==
    vphase = "validated" =>
        /\ vresult.ok => EveryNode(tree, CallPermitted)
        /\ SomeNode(tree, BadCall) => ~vresult.ok

\* a rejected tree whose only offence is a disallowed call below the top
\* of an otherwise valid expression
C2_Witness ==
    /\ vphase = "validated"
    /\ ~vresult.ok
    /\ tree.kind = "Module"
    /\ wraps >= 2
    /\ EveryNode(tree, KindPermitted)
    /\ EveryNode(tree, NamePermitted) \/ vresult.err = "ValueError:indirect-call"
    /\ CallPermitted(Body(tree))
    /\ SomeNode(tree, BadCall)

\* C3: a tree with a Name node whose id is outside ALLOWED_NAMES, at any
\* position, is rejected; every Name of an accepted tree is allow-listed.
C3_NamesAllowListed ==
    vphase = "validated" =>
        /\ SomeNode(tree, BadName) => ~vresult.ok
        /\ vresult.ok => EveryNode(tree, NamePermitted)

\* rejected for the name alone: the identifier q, nested twice, in a tree
\* with no other offence
C3_Witness ==
    /\ vphase = "validated"
    /\ vresult = Raise("ValueError:name", "q")
    /\ wraps >= 2
    /\ EveryNode(tree, KindPermitted)
    /\ EveryNode(tree, CallPermitted)

RECURSIVE Fields(_, _, _)
Fields(s, k, cur) ==
    IF k > Len(s) THEN <<Strip(cur)>>
    ELSE IF s[k] = ";" THEN <<Strip(cur)>> \o Fields(s, k + 1, <<>>)
    ELSE Fields(s, k + 1, Append(cur, s[k]))

TrimmedParts(s) == Fields(s, 1, <<>>)
NonEmptyParts(s) == SelectSeq(TrimmedParts(s), LAMBDA p : p # <<>>)
TrimmedExpected == [i \in 1..Len(tExpected) |-> Strip(tExpected[i])]

\* C7 as stated: passes iff the trimmed parts of the split, empty parts
\* included, equal the trimmed expected strings.
C7_AsStated ==
    tphase = "checked" =>
        (tVerdict.passed <=> TrimmedParts(tAns) = TrimmedExpected)

\* C7 amended: passes iff the non-empty trimmed parts, in order, equal the
\* trimmed expected strings (empty parts are dropped before comparing).
C7_NonEmptyPartsMatch ==
    tphase = "checked" =>
        (tVerdict.passed <=> NonEmptyParts(tAns) = TrimmedExpected)

\* 'False ; True' passes against ['False', 'True']
C7_Witness ==
    /\ tphase = "checked"
    /\ tExpected = <<S_False, S_True>>
    /\ tAns = S_False \o S_Space \o S_Semi \o S_Space \o S_True
    /\ tVerdict.passed


\* ---- C1
\* C1: every text that eval() or exec() ran had been accepted by
\* _validate_ast before it ran.
C1_ValidatedBeforeExecution ==
    \A e \in last.events : e.validation = "accepted"

\* ---- C5
\* C5: a call of a checker returns a verdict, and a failure caught on the
\* way gives passed = False; no exception reaches the caller.
C5_NoExceptionEscapes ==
    last.called =>
        /\ last.raised = ""
        /\ last.caught # "" => ~last.verdict.passed

\* ---- C6
\* C6: the checker of item list_copy passes the answers 'a.copy()' and
\* 'a[:]' and fails the answer 'a'.
C6_ListCopyAccepted ==
    (last.called /\ last.task = "list_copy") =>
        /\ last.ans \in {A_a_copy, A_a_slice} => last.ok
        /\ last.ans = A_a => ~last.ok

\* ---- C8
FlagAndMessageAgree(c) ==
    c.raised = "" => (c.verdict.passed <=> c.verdict.msg \in {"Verno!", "Verno! "})

\* C8: a call of a checker leaves the objects of the items' environments
\* as they were, returns a flag and a message that agree, and, when it
\* repeats the answer of the call before it, returns the same verdict.
C8_Idempotent ==
    [][last'.parity # last.parity =>
        /\ procHeap' = procHeap
        /\ FlagAndMessageAgree(last')
        /\ (last.called /\ last'.ans = last.ans) =>
                /\ last'.raised = last.raised
                /\ last'.verdict = last.verdict]_vars

\* ---- C9
\* C9: a step that reads '?' at the answer prompt changes neither the
\* score, the current item, its position, the pool nor the record of
\* checker calls, prints no result and returns to the answer prompt;
\* this holds for every one of a run of consecutive '?' inputs.
C9_HintIsFree ==
    [][hints' = hints + 1 =>
        /\ pc = "ask" /\ pc' = "ask"
        /\ UNCHANGED <<score, task, pos, status, total, report, last,
                       procHeap, procBuiltins>>]_vars

\* two hints in a row at the third item, after a pass
C9_Witness ==
    /\ hints = 2
    /\ pc = "ask"
    /\ pos = 3
    /\ score >= 1

\* ---- C10
Completed == {t \in DOMAIN status : status[t] \in {"passed", "failed"}}
Passed == {t \in DOMAIN status : status[t] = "passed"}

C10_Counts ==
    /\ score = Cardinality(Passed)
    /\ score >= 0
    /\ score <= Cardinality(Completed)
    /\ Cardinality(Completed) <= total
    /\ pc \in {"ask", "retry", "quit"} => Cardinality(Completed) = pos - 1
    /\ pc = "quit" => report = [kind |-> "quit", score |-> score, outOf |-> pos - 1]

C10_QuitStep ==
    /\ pc # "quit"
    /\ pc' = "quit" =>
          /\ pc = "ask"
          /\ UNCHANGED <<score, task, pos, status, last, procHeap, procBuiltins>>

\* C10: 'q' at item i ends the session with the result score/(i-1) without
\* calling a checker or presenting another item; the score is the number of
\* items left with a passing answer, and 0 <= score <= items completed <=
\* total throughout.
C10_QuitReportsPartialScore == []C10_Counts /\ [][C10_QuitStep]_vars

\* quit at the third item after one pass and one failure
C10_Witness ==
    /\ pc = "quit"
    /\ pos = 3
    /\ score = 1
    /\ report.outOf = 2

====
